---- MODULE Spec2Model ----
(***************************************************************************)
(* Model of the component version updater of meta-rdk-wan                  *)
(* (.github/scripts/update_component.py and test_component_updates.py).    *)
(*                                                                         *)
(* A recipe file is a sequence of lines.  Every line the updater's regular *)
(* expressions can tell apart is a record; strings the code formats or     *)
(* parses (tags, branch names) are records of their parts, so that two     *)
(* formatted names are equal exactly when their texts are equal.           *)
(***************************************************************************)
EXTENDS Integers, Sequences, FiniteSets, TLC

(***************************************************************************)
(* Bounds of the model.                                                    *)
(***************************************************************************)
\* longest recipe document, in lines, that InitRecipe draws
MaxLines == 3
\* number of successive update_bb_file runs explored on one recipe
MaxRuns == 2
\* longest branch listing the remote API answers with
MaxBranches == 2

(***************************************************************************)
(* Texts: version specifiers and branch names, as prefix, dotted numeric   *)
(* components, and suffix.  q says that the text ends with a double quote  *)
(* (what a capture running to the end of a quoted value picks up).         *)
(***************************************************************************)
Txt(pre, ver, suf) == [pre |-> pre, ver |-> ver, suf |-> suf, q |-> FALSE]

NoText == Txt("", <<>>, "")

TagA == Txt("v", <<2, 11, 0>>, "")
TagB == Txt("v", <<2, 11, 1>>, "")
OldTag == Txt("v", <<1, 0, 0>>, "")
BranchArg == Txt("releases/", <<1, 4, 0>>, "-main")
BadArg == Txt("", <<1, 3, 0>>, "")
ShortArg == Txt("v", <<1, 3>>, "")

Tags == {TagA, TagB}
Specifiers == Tags \cup {BranchArg, BadArg, ShortArg}

OldBranch == Txt("releases/", <<1, 0, 0>>, "-main")
RelA == Txt("releases/", <<2, 11, 0>>, "-main")
RelB == Txt("releases/", <<2, 10, 0>>, "-main")
Develop == Txt("develop", <<>>, "")
BranchPool == {RelA, RelB, Develop}

\* str.startswith('v') and re.match(r'^v\d+\.\d+\.\d+', s)
IsVersionTag(s) == s.pre = "v" /\ Len(s.ver) >= 3

\* str.startswith('releases/') and str.endswith('-main')
IsReleaseBranch(s) == s.pre = "releases/" /\ s.suf = "-main" /\ ~s.q

\* '.'.join(tag.lstrip('v').split('.')[:2])
MajorMinor(tag) == SubSeq(tag.ver, 1, 2)

\* f"releases/{branch_version}.0-main"
FallbackBranch(tag) == Txt("releases/", MajorMinor(tag) \o <<0>>, "-main")

\* mutant: the third and fourth candidate change places
PatternsReordered(tag) ==
    << Txt("releases/", MajorMinor(tag) \o <<0>>, "-main"),
       Txt("releases/", tag.ver, tag.suf \o "-main"),
       Txt("release-", MajorMinor(tag), ""),
       Txt("releases/", MajorMinor(tag), "-main"),
       Txt("release-", tag.ver, tag.suf) >>

\* the five candidate names of _find_branch_by_pattern, in probing order
Patterns(tag) ==
    << Txt("releases/", MajorMinor(tag) \o <<0>>, "-main"),
       Txt("releases/", tag.ver, tag.suf \o "-main"),
       Txt("releases/", MajorMinor(tag), "-main"),
       Txt("release-", MajorMinor(tag), ""),
       Txt("release-", tag.ver, tag.suf) >>

(***************************************************************************)
(* Recipe lines.  k is the field the line holds, c says that the line is   *)
(* disabled by a leading "#", t is the tag or branch it names, a is the    *)
(* form of its value, and n counts copies of the text                      *)
(*   ;protocol=https;name=<component>;tag=${GIT_TAG}"                      *)
(* that follow the value's closing quote on the same line.                 *)
(*                                                                         *)
(* Forms of a SRC_URI line for this repository:                            *)
(*   "branch"  SRC_URI = "git://.../<repo>.git;branch=B;protocol=https;    *)
(*             name=N;"                    (what a branch update writes)   *)
(*   "tag"     SRC_URI := "git://.../<repo>.git;branch=B;protocol=https;   *)
(*             name=N;tag=${GIT_TAG}"      (what a tag update writes)      *)
(*   "cut"     SRC_URI := "git://.../<repo>.git;branch=B"                  *)
(*   "last"    SRC_URI = "git://.../<repo>.git;protocol=https;branch=B"    *)
(*   "nogit"   SRC_URI = "git://.../<repo>;branch=B;protocol=https"        *)
(* Forms of a PV line: "gittag" is PV = "${GIT_TAG}+git${SRCPV}", "fixed"  *)
(* any other value; of a SRCREV line: "AUTOREV" is SRCREV = "${AUTOREV}",  *)
(* "fixed" a commit hash.                                                  *)
(***************************************************************************)
Ln(k, c, t, a) == [k |-> k, c |-> c, t |-> t, a |-> a, n |-> 0]

Blank == Ln("blank", FALSE, NoText, "")
Lic == Ln("LIC_FILES_CHKSUM", FALSE, NoText, "")
Dep == Ln("DEPENDS", FALSE, NoText, "")
\* '# Please use below part only for official release and release candidates'
Note == Ln("note", TRUE, NoText, "")
GitTag(c, tag) == Ln("GIT_TAG", c, tag, "")
SrcUri(c, a, b) == Ln("SRC_URI", c, b, a)
Pv(c, a) == Ln("PV", c, NoText, a)
SrcRev(c, a) == Ln("SRCREV", c, NoText, a)

RECURSIVE Concat(_)
Concat(ss) == IF ss = <<>> THEN <<>> ELSE Head(ss) \o Concat(Tail(ss))

\* the lines of doc, each replaced by the lines F gives for it
Expand(F(_), doc) == Concat([i \in 1..Len(doc) |-> F(doc[i])])

HasField(doc, k) == \E i \in 1..Len(doc) : doc[i].k = k

\* a line the pattern SRC_URI\s*[:=]+\s*"git://github\.com/<org>/<repo>\.git[^"]*" matches
MatchesSrcUri(l) == l.k = "SRC_URI" /\ l.a # "nogit"

(***************************************************************************)
(* re.sub(r'\n{3,}', '\n\n', content): with every line ended by a newline, *)
(* a blank line is dropped when the line before it is blank too, except    *)
(* that two blank lines at the very start of the file are both kept.       *)
(***************************************************************************)
CollapseBlank(doc) ==
    LET keep == {j \in 1..Len(doc) :
                    ~(doc[j].k = "blank" /\ j >= 3 /\ doc[j-1].k = "blank")}
    IN  Expand(LAMBDA x : x,
               [j \in 1..Len(doc) |-> IF j \in keep THEN <<doc[j]>> ELSE <<>>])

(***************************************************************************)
(* get_current_branch_from_bb: the capture ([^;]+) after "branch=" of the  *)
(* first line starting with #SRC_URI that names the repository.  Where the *)
(* branch is the last parameter of the value the capture runs over the     *)
(* closing quote.                                                          *)
(***************************************************************************)
IsRecorded(l) == l.k = "SRC_URI" /\ l.c /\ l.t # NoText

CapturedBranch(l) == [l.t EXCEPT !.q = (l.a \in {"last", "cut"})]

CurrentBranchFromBB(doc) ==
    IF \E i \in 1..Len(doc) : IsRecorded(doc[i])
    THEN LET i == CHOOSE j \in 1..Len(doc) :
                     /\ IsRecorded(doc[j])
                     /\ \A h \in 1..(j-1) : ~IsRecorded(doc[h])
         IN  CapturedBranch(doc[i])
    ELSE NoText

(***************************************************************************)
(* Tag mode of update_bb_file, step by step.                               *)
(***************************************************************************)
\* index after which GIT_TAG is inserted: the first LIC_FILES_CHKSUM line,
\* or else the first DEPENDS line; 0 when there is neither
InsertIdx(doc) ==
    LET lics == {i \in 1..Len(doc) : doc[i].k = "LIC_FILES_CHKSUM"}
        deps == {i \in 1..Len(doc) : doc[i].k = "DEPENDS"}
        Min(S) == CHOOSE i \in S : \A j \in S : i <= j
    IN  IF lics # {} THEN Min(lics) ELSE IF deps # {} THEN Min(deps) ELSE 0

TagSetGitTag(doc, tag) ==
    IF ~HasField(doc, "GIT_TAG")
    THEN LET at == InsertIdx(doc)
         IN  IF at > 0
             THEN SubSeq(doc, 1, at) \o <<Blank, Note, GitTag(FALSE, tag)>>
                      \o SubSeq(doc, at + 1, Len(doc))
             ELSE doc
    ELSE [i \in 1..Len(doc) |->
             IF doc[i].k = "GIT_TAG" THEN [doc[i] EXCEPT !.t = tag, !.n = 0]
             ELSE doc[i]]

\* the line a match of the SRC_URI pattern becomes when new_src_uri names branch
TagSrcUriLine(l, branch) ==
    IF branch.q
    THEN [l EXCEPT !.a = "cut", !.t = [branch EXCEPT !.q = FALSE], !.n = @ + 1]
    ELSE [l EXCEPT !.a = "tag", !.t = branch]

TagSetSrcUri(doc, branch) ==
    [i \in 1..Len(doc) |->
        IF MatchesSrcUri(doc[i]) THEN TagSrcUriLine(doc[i], branch) ELSE doc[i]]

\* a line that contains the text of the tag-mode new_src_uri for branch
HoldsTagUri(l, branch) ==
    /\ l.k = "SRC_URI"
    /\ l.t = [branch EXCEPT !.q = FALSE]
    /\ IF branch.q THEN l.a = "cut" /\ l.n >= 1 ELSE l.a = "tag"

\* content.replace(new_src_uri, new_src_uri + '\nPV = "${GIT_TAG}+git${SRCPV}"')
TagAddPvAfter(l, branch) ==
    IF HoldsTagUri(l, branch)
    THEN LET keep == IF branch.q THEN 1 ELSE 0
         IN  << [l EXCEPT !.n = keep],
                [Pv(FALSE, "gittag") EXCEPT !.n = l.n - keep] >>
    ELSE <<l>>

TagSetPv(doc, branch) ==
    IF ~HasField(doc, "PV")
    THEN Expand(LAMBDA l : TagAddPvAfter(l, branch), doc)
    ELSE [i \in 1..Len(doc) |->
             IF doc[i].k = "PV" THEN [doc[i] EXCEPT !.a = "gittag", !.n = 0]
             ELSE doc[i]]

\* re.sub(r'^SRCREV = ', '#SRCREV = ', content, flags=re.MULTILINE)
CommentSrcRev(doc) ==
    [i \in 1..Len(doc) |->
        IF doc[i].k = "SRCREV" /\ ~doc[i].c THEN [doc[i] EXCEPT !.c = TRUE]
        ELSE doc[i]]

TagModeContent(doc, tag, branch) ==
    CollapseBlank(CommentSrcRev(TagSetPv(TagSetSrcUri(TagSetGitTag(doc, tag), branch), branch)))

(***************************************************************************)
(* Branch mode of update_bb_file, step by step.                            *)
(***************************************************************************)
\* re.sub(r'^GIT_TAG = ".*"\n?', '', content, flags=re.MULTILINE)
RemoveGitTag(doc) == SelectSeq(doc, LAMBDA l : ~(l.k = "GIT_TAG" /\ ~l.c))

BranchSetSrcUri(doc, branch) ==
    [i \in 1..Len(doc) |->
        IF MatchesSrcUri(doc[i]) THEN [doc[i] EXCEPT !.a = "branch", !.t = branch]
        ELSE doc[i]]

\* re.sub(r'PV = "\$\{GIT_TAG\}\+git\$\{SRCPV\}"', 'SRCREV = "${AUTOREV}"', content)
PvToSrcRev(doc) ==
    [i \in 1..Len(doc) |->
        IF doc[i].k = "PV" /\ doc[i].a = "gittag"
        THEN [doc[i] EXCEPT !.k = "SRCREV", !.a = "AUTOREV"]
        ELSE doc[i]]

\* re.sub(r'^#SRCREV = ', 'SRCREV = ', content, flags=re.MULTILINE)
UncommentSrcRev(doc) ==
    [i \in 1..Len(doc) |->
        IF doc[i].k = "SRCREV" /\ doc[i].c THEN [doc[i] EXCEPT !.c = FALSE]
        ELSE doc[i]]

\* content.replace(new_src_uri, new_src_uri + '\nSRCREV = "${AUTOREV}"')
BranchAddSrcRevAfter(l, branch) ==
    IF l.k = "SRC_URI" /\ l.a = "branch" /\ l.t = branch
    THEN << [l EXCEPT !.n = 0], [SrcRev(FALSE, "AUTOREV") EXCEPT !.n = l.n] >>
    ELSE <<l>>

BranchAddSrcRev(doc, branch) ==
    IF ~HasField(doc, "SRCREV")
    THEN Expand(LAMBDA l : BranchAddSrcRevAfter(l, branch), doc)
    ELSE doc

BranchModeContent(doc, branch) ==
    CollapseBlank(BranchAddSrcRev(UncommentSrcRev(PvToSrcRev(
        BranchSetSrcUri(RemoveGitTag(doc), branch))), branch))

(***************************************************************************)
(* The remote repository-hosting API.  A request is a URL of               *)
(* _api_request, a response what it returns or the exception it raises.    *)
(* The remote answers the same request the same way every time: known      *)
(* holds the answers given so far, and rest says whether a request not yet *)
(* answered may be answered in any way ("any") or fails ("fail").          *)
(***************************************************************************)
Req(kind, b, sha) == [req |-> kind, b |-> b, sha |-> sha]

\* /repos/<org>/<repo>/git/refs/tags/<tag>
TagRefReq(tag) == Req("tag-ref", tag, "")
\* /repos/<org>/<repo>/git/tags/<tag_sha>
TagObjReq(sha) == Req("tag-object", NoText, sha)
\* /repos/<org>/<repo>/branches
BranchesReq == Req("branches", NoText, "")
\* /repos/<org>/<repo>/compare/<branch>...<commit_sha>
CompareReq(b, sha) == Req("compare", b, sha)
\* /repos/<org>/<repo>/branches/<branch>
BranchReq(b) == Req("branch", b, "")

Resp(st, sha, list) == [st |-> st, sha |-> sha, list |-> list]

\* urlopen raised (network error, HTTP 404, ...)
Err == Resp("err", "", <<>>)

\* branch listings: sequences of distinct names of at most MaxBranches branches
Listings ==
    UNION {{l \in [1..n -> BranchPool] : \A i, j \in 1..n : i # j => l[i] # l[j]}
            : n \in 0..MaxBranches}

Responses(q) ==
    CASE q.req = "tag-ref"    -> {Resp("ok", "tagsha", <<>>), Err}
      [] q.req = "tag-object" -> {Resp("ok", "commit", <<>>), Err}
      [] q.req = "branches"   -> {Resp("ok", "", l) : l \in Listings} \cup {Err}
      [] q.req = "compare"    -> {Resp(st, "", <<>>) : st \in {"identical", "behind", "ahead"}}
                                     \cup {Err}
      [] q.req = "branch"     -> {Resp("ok", "", <<>>), Err}

Ask(m, q) ==
    IF \E a \in m.known : a.q = q
    THEN {(CHOOSE a \in m.known : a.q = q).r}
    ELSE IF m.rest = "fail" THEN {Err} ELSE Responses(q)

Told(m, q, r) == [m EXCEPT !.known = @ \cup {[q |-> q, r |-> r]}]

(***************************************************************************)
(* A computation in progress: m the remote, log the requests issued so far *)
(* with their responses, io the file operations so far, r the last         *)
(* response, sha and br the value the last helper returned ("" and NoText  *)
(* stand for None).  Every helper gives the set of computations it can end *)
(* in, one per way the remote can answer.                                  *)
(***************************************************************************)
Comp(m) == [m |-> m, log |-> <<>>, io |-> <<>>, r |-> Err, sha |-> "", br |-> NoText]

ApiRequest(c, q) ==
    {[c EXCEPT !.m = Told(c.m, q, r), !.log = Append(@, [q |-> q, r |-> r]), !.r = r]
        : r \in Ask(c.m, q)}

GetTagSha(c, tag) ==
    {[x EXCEPT !.sha = IF x.r.st = "ok" THEN x.r.sha ELSE ""]
        : x \in ApiRequest(c, TagRefReq(tag))}

GetCommitSha(c, tagSha) ==
    {[x EXCEPT !.sha = IF x.r.st = "ok" THEN x.r.sha ELSE tagSha]
        : x \in ApiRequest(c, TagObjReq(tagSha))}

\* status in ['identical', 'behind']; an exception gives False
ContainsStatus(st) == st \in {"identical", "behind"}

BranchContainsCommit(c, b, sha) == ApiRequest(c, CompareReq(b, sha))

\* mutant: the listing is not filtered by name
ReleaseBranchesUnfiltered(list) == list

\* [b['name'] for b in branches_data if b['name'].startswith('releases/')]
ReleaseBranches(list) == SelectSeq(list, LAMBDA b : b.pre = "releases/")

RECURSIVE CompareLoop(_, _, _, _)
CompareLoop(c, names, i, sha) ==
    IF i > Len(names)
    THEN {[c EXCEPT !.br = NoText]}
    ELSE UNION {IF ContainsStatus(x.r.st)
                THEN {[x EXCEPT !.br = names[i]]}
                ELSE CompareLoop(x, names, i + 1, sha)
                   : x \in BranchContainsCommit(c, names[i], sha)}

FindBranchContainingCommit(c, sha) ==
    UNION {IF x.r.st = "ok"
           THEN CompareLoop(x, ReleaseBranches(x.r.list), 1, sha)
           ELSE {[x EXCEPT !.br = NoText]}
              : x \in ApiRequest(c, BranchesReq)}

BranchExists(c, b) == ApiRequest(c, BranchReq(b))

RECURSIVE ProbeLoop(_, _, _)
ProbeLoop(c, pats, j) ==
    IF j > Len(pats)
    THEN {[c EXCEPT !.br = NoText]}
    ELSE UNION {IF x.r.st = "ok"
                THEN {[x EXCEPT !.br = pats[j]]}
                ELSE ProbeLoop(x, pats, j + 1)
                   : x \in BranchExists(c, pats[j])}

FindBranchByPattern(c, tag) == ProbeLoop(c, Patterns(tag), 1)

\* mutant: the tag-object lookup is attempted although the tag-ref lookup failed
FindTagBranchNoShaCheck(c, tag) ==
    UNION {UNION {UNION {IF z.br # NoText THEN {z} ELSE FindBranchByPattern(z, tag)
                            : z \in FindBranchContainingCommit(y, y.sha)}
                     : y \in GetCommitSha(x, x.sha)}
              : x \in GetTagSha(c, tag)}

FindTagBranch(c, tag) ==
    UNION {IF x.sha # ""
           THEN UNION {UNION {IF z.br # NoText THEN {z} ELSE FindBranchByPattern(z, tag)
                                 : z \in FindBranchContainingCommit(y, y.sha)}
                          : y \in GetCommitSha(x, x.sha)}
           ELSE FindBranchByPattern(x, tag)
              : x \in GetTagSha(c, tag)}

(***************************************************************************)
(* The recipe file on disk: whether it exists, and its lines.              *)
(***************************************************************************)
Missing == [exists |-> FALSE, lines |-> <<>>]
OnDisk(doc) == [exists |-> TRUE, lines |-> doc]

Did(c, what) == [c EXCEPT !.io = @ \o what]

\* get_current_branch_from_bb, with the file operations it performs
GetCurrentBranchFromBB(c, f) ==
    IF ~f.exists
    THEN [Did(c, <<"exists">>) EXCEPT !.br = NoText]
    ELSE [Did(c, <<"exists", "read">>) EXCEPT !.br = CurrentBranchFromBB(f.lines)]

\* mutant: the final fallback is missing
UpdateFallbackNoSynth(c, f, tag) ==
    IF c.br # NoText THEN c ELSE GetCurrentBranchFromBB(c, f)

\* mutant: the synthesized name is taken before the recorded branch
UpdateFallbackSynthFirst(c, f, tag) ==
    IF c.br # NoText THEN c
    ELSE [GetCurrentBranchFromBB(c, f) EXCEPT !.br = FallbackBranch(tag)]

\* the fallback chain of update_bb_file: recorded branch, else synthesized
UpdateFallback(c, f, tag) ==
    IF c.br # NoText THEN c
    ELSE LET x == GetCurrentBranchFromBB(c, f)
         IN  IF x.br # NoText THEN x ELSE [x EXCEPT !.br = FallbackBranch(tag)]

\* an outcome of an entry point: result, file left on disk, branch used or
\* reported, and the computation's remote, requests and file operations
Outcome(ok, f, c, used, reported) ==
    [ok |-> ok, file |-> f, m |-> c.m, log |-> c.log, io |-> c.io,
     used |-> used, reported |-> reported]

\* mutant: the specifier is validated after the file has been read
UpdateBBFileLateValidation(c, f, s) ==
    IF ~f.exists
    THEN {Outcome(FALSE, f, Did(c, <<"exists">>), NoText, NoText)}
    ELSE IF ~IsVersionTag(s) /\ ~IsReleaseBranch(s)
    THEN {Outcome(FALSE, f, Did(c, <<"exists", "read">>), NoText, NoText)}
    ELSE IF IsVersionTag(s)
    THEN {LET y == UpdateFallback(x, f, s)
          IN  Outcome(TRUE, OnDisk(TagModeContent(f.lines, s, y.br)),
                      Did(y, <<"write">>), y.br, NoText)
             : x \in FindTagBranch(Did(c, <<"exists", "read">>), s)}
    ELSE {Outcome(TRUE, OnDisk(BranchModeContent(f.lines, s)),
                  Did(c, <<"exists", "read", "write">>), s, NoText)}

UpdateBBFile(c, f, s) ==
    IF ~f.exists
    THEN {Outcome(FALSE, f, Did(c, <<"exists">>), NoText, NoText)}
    ELSE IF ~IsVersionTag(s) /\ ~IsReleaseBranch(s)
    THEN {Outcome(FALSE, f, Did(c, <<"exists">>), NoText, NoText)}
    ELSE IF IsVersionTag(s)
    THEN {LET y == UpdateFallback(x, f, s)
          IN  Outcome(TRUE, OnDisk(TagModeContent(f.lines, s, y.br)),
                      Did(y, <<"write">>), y.br, NoText)
             : x \in FindTagBranch(Did(c, <<"exists", "read">>), s)}
    ELSE {Outcome(TRUE, OnDisk(BranchModeContent(f.lines, s)),
                  Did(c, <<"exists", "read", "write">>), s, NoText)}

\* the literal the command line's dry run prints when nothing resolves
FallbackPattern == Txt("fallback-pattern", <<>>, "")

\* mutant: --dry-run is ignored
MainIgnoresDryRun(c, f, s, dryRun) ==
    IF ~IsVersionTag(s) /\ ~IsReleaseBranch(s)
    THEN {Outcome(FALSE, f, c, NoText, NoText)}
    ELSE UpdateBBFile(c, f, s)

\* main() of update_component.py
Main(c, f, s, dryRun) ==
    IF ~IsVersionTag(s) /\ ~IsReleaseBranch(s)
    THEN {Outcome(FALSE, f, c, NoText, NoText)}
    ELSE IF dryRun
    THEN IF IsVersionTag(s)
         THEN {LET y == IF x.br # NoText THEN x ELSE GetCurrentBranchFromBB(x, f)
               IN  Outcome(TRUE, f, y, NoText,
                           IF y.br # NoText THEN y.br ELSE FallbackPattern)
                  : x \in FindTagBranch(c, s)}
         ELSE {Outcome(TRUE, f, c, NoText, NoText)}
    ELSE UpdateBBFile(c, f, s)

\* ComponentTester.test_component_update, for the component of this recipe
TestComponentUpdate(c, f, s, dryRun) ==
    IF ~f.exists
    THEN {Outcome(FALSE, f, Did(c, <<"exists">>), NoText, NoText)}
    ELSE LET c1 == Did(c, <<"exists", "read">>)
             resolved == IF s.pre = "v"
                         THEN {UpdateFallback(x, f, s) : x \in FindTagBranch(c1, s)}
                         ELSE {c1}
         IN  UNION {IF dryRun
                    THEN {Outcome(TRUE, f, y, NoText, y.br)}
                    ELSE {[o EXCEPT !.reported = y.br]
                             : o \in UpdateBBFile([y EXCEPT !.br = NoText], f, s)}
                       : y \in resolved}

\* ComponentTester.run_tests for one component; the result is errors == 0
RunTests(c, f, s, dryRun) ==
    IF ~f.exists
    THEN {Outcome(FALSE, f, Did(c, <<"exists">>), NoText, NoText)}
    ELSE IF ~IsVersionTag(s) /\ ~IsReleaseBranch(s)
    THEN {Outcome(FALSE, f, Did(c, <<"exists">>), NoText, NoText)}
    ELSE {[o EXCEPT !.ok = TRUE]
             : o \in TestComponentUpdate(Did(c, <<"exists">>), f, s, dryRun)}

(***************************************************************************)
(* State: the recipe file, the remote, and what the last invocation was    *)
(* given and did (op, log, io), the file it found (before), the invocation *)
(* before it (prev), and the number of invocations so far.                 *)
(***************************************************************************)
VARIABLES file, remote, op, log, io, before, prev, runs

vars == <<file, remote, op, log, io, before, prev, runs>>

Op(kind, s, o) == [kind |-> kind, s |-> s, ok |-> o.ok, used |-> o.used,
                   reported |-> o.reported]

NoOp == [kind |-> "none", s |-> NoText, ok |-> FALSE, used |-> NoText,
         reported |-> NoText]

\* the state after an invocation of the given kind ended in outcome o
Finish(kind, s, o) ==
    /\ file' = o.file
    /\ remote' = o.m
    /\ op' = Op(kind, s, o)
    /\ log' = o.log
    /\ io' = o.io
    /\ before' = file
    /\ prev' = op
    /\ runs' = runs + 1

\* update_bb_file called on the recipe
Update(s) == \E o \in UpdateBBFile(Comp(remote), file, s) : Finish("update", s, o)

\* update_component.py <specifier> <repo> <bb_file> <component>
CliUpdate(s) == \E o \in Main(Comp(remote), file, s, FALSE) : Finish("cli", s, o)

\* update_component.py --dry-run ...
CliDryRun(s) == \E o \in Main(Comp(remote), file, s, TRUE) : Finish("cli-dry", s, o)

\* test_component_updates.py --<component> <specifier>
TestDryRun(s) == \E o \in RunTests(Comp(remote), file, s, TRUE) : Finish("test-dry", s, o)

\* test_component_updates.py --<component> <specifier> --live-run
TestLiveRun(s) == \E o \in RunTests(Comp(remote), file, s, FALSE) : Finish("test-live", s, o)

(***************************************************************************)
(* Spec: one invocation of any entry point on a recipe of SampleRecipes    *)
(* (or a missing file), against a remote that may answer in any way.       *)
(***************************************************************************)
AnyRemote == [known |-> {}, rest |-> "any"]

\* a recipe in branch mode with the tag-mode lines commented out
RecipeBranchMode ==
    << Lic, Note, GitTag(TRUE, OldTag), SrcUri(TRUE, "tag", OldBranch), Pv(TRUE, "gittag"),
       Blank, SrcUri(FALSE, "branch", Develop), SrcRev(FALSE, "AUTOREV") >>
\* a recipe in tag mode, nothing commented out but the revision
RecipeTagMode ==
    << Lic, Blank, Note, GitTag(FALSE, OldTag), SrcUri(FALSE, "tag", OldBranch),
       Pv(FALSE, "gittag"), SrcRev(TRUE, "fixed") >>
\* a recipe whose commented-out SRC_URI has the branch as its last parameter
RecipeBranchLast ==
    << Dep, SrcUri(TRUE, "last", OldBranch), SrcUri(FALSE, "branch", Develop),
       SrcRev(FALSE, "fixed") >>
\* a recipe with neither a license-checksum nor a dependency line
RecipeMinimal == << SrcUri(FALSE, "branch", Develop), SrcRev(FALSE, "AUTOREV") >>

SampleRecipes == {RecipeBranchMode, RecipeTagMode, RecipeBranchLast, RecipeMinimal}

Start(f, m) ==
    /\ file = f
    /\ remote = m
    /\ op = NoOp
    /\ log = <<>>
    /\ io = <<>>
    /\ before = f
    /\ prev = NoOp
    /\ runs = 0

Init == \E d \in SampleRecipes : \E f \in {OnDisk(d), Missing} : Start(f, AnyRemote)

\* a behaviour of Spec is one invocation
Once == runs = 0

Next ==
    \/ \E s \in Specifiers : Once /\ Update(s)
    \/ \E s \in Specifiers : Once /\ CliUpdate(s)
    \/ \E s \in Specifiers : Once /\ CliDryRun(s)
    \/ \E s \in Specifiers : Once /\ TestDryRun(s)
    \/ \E s \in Specifiers : Once /\ TestLiveRun(s)

Spec == Init /\ [][Next]_vars

(***************************************************************************)
(* SpecRecipe: up to MaxRuns successive update_bb_file calls on any recipe *)
(* of at most MaxLines lines of LineAlphabet, against a remote that is     *)
(* down, or that resolves every tag to RelA by commit ancestry.            *)
(***************************************************************************)
LineAlphabet ==
    { Lic, Dep, Blank,
      GitTag(FALSE, OldTag), GitTag(TRUE, OldTag),
      SrcUri(FALSE, "branch", OldBranch), SrcUri(FALSE, "tag", OldBranch),
      SrcUri(TRUE, "tag", OldBranch), SrcUri(TRUE, "last", OldBranch),
      SrcUri(TRUE, "nogit", OldBranch),
      Pv(FALSE, "gittag"), Pv(TRUE, "gittag"),
      SrcRev(FALSE, "AUTOREV"), SrcRev(TRUE, "AUTOREV"), SrcRev(FALSE, "fixed") }

Recipes == UNION {[1..n -> LineAlphabet] : n \in 0..MaxLines}

RemoteDown == [known |-> {}, rest |-> "fail"]

RemoteUp ==
    [known |-> {[q |-> TagRefReq(t), r |-> Resp("ok", "tagsha", <<>>)] : t \in Tags}
                 \cup {[q |-> TagObjReq("tagsha"), r |-> Resp("ok", "commit", <<>>)],
                       [q |-> BranchesReq, r |-> Resp("ok", "", <<Develop, RelA>>)],
                       [q |-> CompareReq(RelA, "commit"), r |-> Resp("behind", "", <<>>)]},
     rest |-> "fail"]

InitRecipe ==
    \E d \in Recipes : \E m \in {RemoteDown, RemoteUp} : Start(OnDisk(d), m)

NextRecipe ==
    /\ runs < MaxRuns
    /\ \E s \in Specifiers : Update(s)

SpecRecipe == InitRecipe /\ [][NextRecipe]_vars

(***************************************************************************)
(* SpecDryRun: a dry run of the command line or of the test harness,       *)
(* followed by update_bb_file with the same specifier on the same file     *)
(* against the same remote.                                                *)
(***************************************************************************)
Rehearsed == runs = 1 /\ op.kind \in {"cli-dry", "test-dry"}

NextDryRun ==
    \/ \E s \in Specifiers : Once /\ CliDryRun(s)
    \/ \E s \in Specifiers : Once /\ TestDryRun(s)
    \/ Rehearsed /\ Update(op.s)

SpecDryRun == Init /\ [][NextDryRun]_vars

(***************************************************************************)
(* SpecOutage: up to MaxRuns tag-mode calls of update_bb_file on a recipe  *)
(* of Recipes; between two calls the remote may go down, after which every *)
(* request fails.                                                          *)
(***************************************************************************)
Outage ==
    /\ runs >= 1
    /\ remote # RemoteDown
    /\ remote' = RemoteDown
    /\ UNCHANGED <<file, op, log, io, before, prev, runs>>

NextOutage ==
    \/ \E s \in Tags : runs < MaxRuns /\ Update(s)
    \/ Outage

SpecOutage == InitRecipe /\ [][NextOutage]_vars

(***************************************************************************)
(* Vocabulary of the properties.                                           *)
(***************************************************************************)
Lines == file.lines
LinesBefore == before.lines

\* the last invocation ran update_bb_file and nothing else
Updated == op.kind \in {"update", "cli"}
TagUpdate == Updated /\ IsVersionTag(op.s)
BranchUpdate == Updated /\ IsReleaseBranch(op.s)

\* requests of the last invocation, by kind
Calls(kinds) == {i \in 1..Len(log) : log[i].q.req \in kinds}
AncestryTier == {"tag-ref", "tag-object", "branches", "compare"}
Failed(i) == log[i].r.st = "err"

\* the comparisons that reported the branch equal to or containing the commit
AncestryHits == {i \in Calls({"compare"}) : log[i].r.st \in {"identical", "behind"}}
\* the existence probes that succeeded
ProbeHits == {i \in Calls({"branch"}) : log[i].r.st = "ok"}

Least(S) == CHOOSE i \in S : \A j \in S : i <= j

\* the branch named by the first commented-out SRC_URI line of doc
RecordedLines(doc) ==
    {i \in 1..Len(doc) : doc[i].k = "SRC_URI" /\ doc[i].c /\ doc[i].t # NoText}
RecordedName(doc) ==
    IF RecordedLines(doc) = {} THEN NoText ELSE doc[Least(RecordedLines(doc))].t

\* releases/{major}.{minor}.0-main
SynthesizedName(tag) ==
    [pre |-> "releases/", ver |-> <<tag.ver[1], tag.ver[2], 0>>, suf |-> "-main", q |-> FALSE]

\* how often the last invocation read the file
Reads == Cardinality({i \in 1..Len(io) : io[i] = "read"})

Active(doc, k) == {i \in 1..Len(doc) : doc[i].k = k /\ ~doc[i].c}
ActiveUri(doc) == {i \in Active(doc, "SRC_URI") : MatchesSrcUri(doc[i])}

\* C1: a tag-mode update_bb_file on an existing recipe file returns True and
\* has obtained a non-empty branch, whatever the remote answered.
C1_TagUpdateAlwaysSucceeds ==
    (TagUpdate /\ before.exists) =>
        /\ op.ok
        /\ op.used # NoText
        /\ op.used.pre # ""
        /\ io[Len(io)] = "write"

\* C1 witness: every remote request failed and the update still succeeded
\* with the synthesized branch.
C1_Witness ==
    /\ TagUpdate /\ before.exists /\ op.ok
    /\ Len(log) > 0
    /\ \A i \in 1..Len(log) : Failed(i)
    /\ op.used = SynthesizedName(op.s)

\* the branch the claimed tier order selects
C2_Expected ==
    IF AncestryHits # {} THEN log[Least(AncestryHits)].q.b
    ELSE IF ProbeHits # {} THEN log[Least(ProbeHits)].q.b
    ELSE IF RecordedName(LinesBefore) # NoText THEN RecordedName(LinesBefore)
    ELSE SynthesizedName(op.s)

\* C2: in tag mode every rewritten SRC_URI names the branch of the first tier
\* that produced one, in the order ancestry, pattern probing, recorded branch,
\* synthesized name; pattern probing happens only after ancestry produced
\* nothing, the recipe is read again for the recorded branch exactly when both
\* remote tiers produced nothing, and the synthesized name is used although no
\* probe confirmed it.
C2_TierOrder ==
    (TagUpdate /\ op.ok) =>
        /\ \A i \in 1..Len(Lines) : MatchesSrcUri(Lines[i]) => Lines[i].t = C2_Expected
        /\ Calls({"branch"}) # {} => AncestryHits = {}
        /\ AncestryHits = {} => Calls({"branch"}) # {}
        /\ (Reads = 2) <=> (AncestryHits = {} /\ ProbeHits = {})
        /\ Cardinality(AncestryHits) + Cardinality(ProbeHits) <= 1

\* C2 witness: tag v2.11.0, nothing resolvable, no recorded branch: the
\* SRC_URI is rewritten to releases/2.11.0-main.
C2_Witness ==
    /\ TagUpdate /\ op.ok /\ op.s = TagA
    /\ AncestryHits = {} /\ ProbeHits = {}
    /\ RecordedName(LinesBefore) = NoText
    /\ \E i \in ActiveUri(Lines) : Lines[i].t = Txt("releases/", <<2, 11, 0>>, "-main")

\* C3 (as claimed): a second update_bb_file with the same specifier, against
\* the same remote answers, leaves the file as the first run left it.
C3_Idempotent ==
    (runs >= 2 /\ op.kind = "update" /\ prev.kind = "update"
        /\ op.s = prev.s /\ op.ok /\ prev.ok) => file = before

\* the two version pins
PinnedByTag(doc) == \E i \in Active(doc, "PV") : doc[i].a = "gittag"
PinnedByAutorev(doc) == \E i \in Active(doc, "SRCREV") : doc[i].a = "AUTOREV"

\* C4 (as claimed): after an update that returned True exactly one of the two
\* pins is active.
C4_ExactlyOnePin ==
    (Updated /\ op.ok) => (PinnedByTag(Lines) # PinnedByAutorev(Lines))

\* a line whose text holds the tag placeholder tag=${GIT_TAG}
CarriesTagPlaceholder(l) == l.a = "tag" \/ l.n > 0

\* a recipe in tag mode: GIT_TAG, a SRC_URI with the tag placeholder and the
\* tag-based PV are active, no SRCREV is
InTagMode(doc) ==
    /\ Active(doc, "GIT_TAG") # {}
    /\ \E i \in ActiveUri(doc) : CarriesTagPlaceholder(doc[i])
    /\ PinnedByTag(doc)
    /\ Active(doc, "SRCREV") = {}

\* C5 (as claimed): a branch-mode update of a recipe in tag mode leaves no
\* active GIT_TAG line, makes the repository's SRC_URI name the given branch
\* without tag placeholder, leaves no PV referencing GIT_TAG, leaves
\* SRCREV = "${AUTOREV}" active and no SRCREV line commented out.
C5_BranchModeClearsTagMode ==
    (BranchUpdate /\ op.ok /\ InTagMode(LinesBefore)) =>
        /\ Active(Lines, "GIT_TAG") = {}
        /\ ActiveUri(Lines) # {}
        /\ \A i \in ActiveUri(Lines) :
              Lines[i].t = op.s /\ ~CarriesTagPlaceholder(Lines[i])
        /\ \A i \in 1..Len(Lines) : ~(Lines[i].k = "PV" /\ Lines[i].a = "gittag")
        /\ PinnedByAutorev(Lines)
        /\ \A i \in 1..Len(Lines) : ~(Lines[i].k = "SRCREV" /\ Lines[i].c)

\* C6 (as claimed): after a tag-mode update that returned True an active
\* GIT_TAG line holds the given tag.
C6_GitTagActive ==
    (TagUpdate /\ op.ok) => \E i \in Active(Lines, "GIT_TAG") : Lines[i].t = op.s

\* C7: when update_bb_file returns False the file is missing or the specifier
\* is malformed, no remote request was issued, the file was neither read nor
\* written and is as it was (a missing file stays missing); the command line
\* rejects a malformed specifier before any file operation at all.
C7_FailureTouchesNothing ==
    (Updated /\ ~op.ok) =>
        /\ ~before.exists \/ (~IsVersionTag(op.s) /\ ~IsReleaseBranch(op.s))
        /\ log = <<>>
        /\ file = before
        /\ \A i \in 1..Len(io) : io[i] = "exists"
        /\ (op.kind = "cli" /\ ~IsVersionTag(op.s) /\ ~IsReleaseBranch(op.s)) => io = <<>>

\* C7 witness: update_bb_file was given 1.3.0 on an existing recipe.
C7_Witness ==
    /\ op.kind = "update" /\ op.s = BadArg /\ before.exists /\ ~op.ok
    /\ file = before /\ io = <<"exists">>

AtMostOneActive(doc) ==
    /\ Cardinality(Active(doc, "GIT_TAG")) <= 1
    /\ Cardinality(ActiveUri(doc)) <= 1
    /\ Cardinality(Active(doc, "PV")) <= 1
    /\ Cardinality(Active(doc, "SRCREV")) <= 1

\* C8 (as claimed): an update keeps every field at most once active.
C8_AtMostOneActive ==
    (Updated /\ op.ok /\ AtMostOneActive(LinesBefore)) => AtMostOneActive(Lines)

\* the invocations that resolve a tag exactly once
OneResolution == op.kind \in {"update", "cli", "cli-dry", "test-dry"} /\ Len(log) > 0

\* C9 (as claimed): once a request of the ancestry tier has failed no further
\* request of that tier follows, and no request is issued twice.
C9_FailureEndsTier ==
    OneResolution =>
        /\ \A i, j \in Calls(AncestryTier) : (Failed(i) /\ i < j) => FALSE
        /\ \A i, j \in 1..Len(log) : i < j => log[i].q # log[j].q

\* C9 (amended): the tag-ref lookup comes first and is issued once; once it or
\* the branch listing has failed no further request of the ancestry tier
\* follows; a failed tag-object lookup is followed by the branch listing and a
\* failed comparison ends neither the tier nor the resolution; when the tier
\* produced no branch the pattern probes follow; and a request is issued
\* twice only as the first two pattern probes of a tag whose patch is 0.
C9_FailureEndsTierAmended ==
    OneResolution =>
        /\ log[1].q.req = "tag-ref"
        /\ \A i, j \in Calls(AncestryTier) :
              (Failed(i) /\ i < j) => log[i].q.req \in {"tag-object", "compare"}
        /\ \A i \in Calls({"tag-object"}) : i < Len(log) /\ log[i+1].q.req = "branches"
        /\ \A i \in Calls({"compare"}) :
              Failed(i) => i < Len(log) /\ log[i+1].q.req \in {"compare", "branch"}
        /\ AncestryHits = {} => Calls({"branch"}) # {}
        /\ \A i, j \in 1..Len(log) :
              (i < j /\ log[i].q = log[j].q) =>
                  /\ log[i].q.req = "branch"
                  /\ j = i + 1
                  /\ Calls({"branch"}) \cap 1..(i-1) = {}
                  /\ op.s.ver[3] = 0

\* C9 witness: the tag-object lookup failed and the listing followed, a
\* comparison failed and another followed, and a probe was issued twice.
C9_Witness ==
    /\ OneResolution
    /\ \E i \in Calls({"tag-object"}) : Failed(i) /\ log[i+1].q.req = "branches"
    /\ \E i \in Calls({"compare"}) : Failed(i) /\ log[i+1].q.req = "compare"
    /\ \E i \in 1..(Len(log) - 1) : log[i].q = log[i+1].q

\* C10: a dry run of the command line or of the test harness leaves the recipe
\* file as it was and performs no write.
C10_DryRunNeverWrites ==
    op.kind \in {"cli-dry", "test-dry"} =>
        /\ file = before
        /\ \A i \in 1..Len(io) : io[i] # "write"

\* C10 witness: dry runs that resolved a tag on an existing recipe.
C10_Witness ==
    /\ op.kind \in {"cli-dry", "test-dry"}
    /\ IsVersionTag(op.s) /\ before.exists /\ op.ok
    /\ Len(log) > 0 /\ op.reported # NoText

\* the branch the last invocation resolved: written by an update, reported by
\* a dry run
Resolved == IF Updated THEN op.used ELSE op.reported

\* the names of a listing that start with "releases/", in listing order
ReleaseNames(list) == SelectSeq(list, LAMBDA b : b.pre = "releases/")

\* the commit a listing at position l of the log is searched for: the
\* tag-object lookup's answer, or the tag's own SHA when that lookup failed
CommitBefore(l) == IF Failed(l - 1) THEN log[l - 2].r.sha ELSE log[l - 1].r.sha

\* C11: the ancestry tier compares the listing's releases/ branches, and only
\* those, in listing order against the tag's commit; the first comparison
\* answering identical or behind ends the resolution with that branch; an
\* erroring or ahead comparison is passed over; and when no branch qualifies
\* or the listing fails the tier yields nothing and pattern probing follows.
C11_AncestryFirstMatch ==
    OneResolution =>
        /\ Cardinality(Calls({"branches"})) <= 1
        /\ Calls({"compare"}) # {} => Calls({"branches"}) # {}
        /\ \A l \in Calls({"branches"}) :
              LET names == IF Failed(l) THEN <<>> ELSE ReleaseNames(log[l].r.list)
                  k == Cardinality(Calls({"compare"}))
              IN  /\ k <= Len(names)
                  /\ \A i \in 1..k : log[l + i].q = CompareReq(names[i], CommitBefore(l))
                  /\ \A i \in 1..(k - 1) : (l + i) \notin AncestryHits
                  /\ IF k > 0 /\ (l + k) \in AncestryHits
                     THEN l + k = Len(log) /\ Resolved = names[k]
                     ELSE /\ k = Len(names)
                          /\ l + k < Len(log)
                          /\ log[l + k + 1].q.req = "branch"

\* C11 witness: two release branches listed, the comparison of the first
\* errored, the second contains the commit and is the branch written.
C11_Witness ==
    /\ OneResolution /\ Updated
    /\ \E l \in Calls({"branches"}) :
          /\ Len(ReleaseNames(log[l].r.list)) = 2
          /\ Failed(l + 1)
          /\ log[l + 2].r.st = "behind"
          /\ op.used = log[l].r.list[2]

\* the candidate names of the pattern tier for tag v{major}.{minor}.{patch}
Candidates(tag) ==
    LET mm == <<tag.ver[1], tag.ver[2]>>
        mmp == <<tag.ver[1], tag.ver[2], tag.ver[3]>>
    IN  << [pre |-> "releases/", ver |-> mm \o <<0>>, suf |-> "-main", q |-> FALSE],
           [pre |-> "releases/", ver |-> mmp, suf |-> "-main", q |-> FALSE],
           [pre |-> "releases/", ver |-> mm, suf |-> "-main", q |-> FALSE],
           [pre |-> "release-", ver |-> mm, suf |-> "", q |-> FALSE],
           [pre |-> "release-", ver |-> mmp, suf |-> "", q |-> FALSE] >>

\* C12: the existence probes of a resolution are its last requests; the j-th
\* probe asks for the j-th candidate; every probe but the last failed (an error
\* counts as not existing); a successful probe ends the resolution with its
\* candidate, no later candidate being probed; and when none succeeded all
\* five were probed and the tier yields nothing, so that an update reads the
\* recipe again for the recorded branch.
C12_PatternOrder ==
    (OneResolution /\ Calls({"branch"}) # {}) =>
        LET k == Cardinality(Calls({"branch"}))
            first == Len(log) - k
        IN  /\ k <= 5
            /\ \A j \in 1..k : log[first + j].q = BranchReq(Candidates(op.s)[j])
            /\ \A j \in 1..(k - 1) : Failed(first + j)
            /\ IF log[first + k].r.st = "ok"
               THEN Resolved = Candidates(op.s)[k]
               ELSE k = 5 /\ (Updated => Reads = 2)

\* C12 witness: for v2.11.1 the first three probes failed and the fourth
\* found release-2.11, which is the branch written.
C12_Witness ==
    /\ OneResolution /\ Updated /\ op.s = TagB
    /\ Cardinality(Calls({"branch"})) = 4
    /\ ProbeHits = {Len(log)}
    /\ op.used = Txt("release-", <<2, 11>>, "")

\* a live tag-mode update followed a dry run with the same tag
LiveAfterDryRun ==
    /\ runs = 2 /\ prev.kind \in {"cli-dry", "test-dry"} /\ prev.ok
    /\ op.kind = "update" /\ IsVersionTag(op.s) /\ op.ok

\* C13 (as claimed): the branch a dry run of the test harness or of the
\* command line reported is the branch the live tag-mode update, given the
\* same tag, file and remote answers, puts into SRC_URI.
C13_DryRunReportsLiveBranch ==
    LiveAfterDryRun =>
        /\ prev.reported = op.used
        /\ \A i \in 1..Len(Lines) :
              MatchesSrcUri(Lines[i]) => Lines[i].t = [prev.reported EXCEPT !.q = FALSE]

\* the SRC_URI lines of doc that name the repository, in order
UriLines(doc) == SelectSeq(doc, LAMBDA l : l.k = "SRC_URI")

\* two tag-mode updates in a row, both remote tiers failing in the second
SecondUpdateUnresolved ==
    /\ runs >= 2
    /\ prev.kind = "update" /\ IsVersionTag(prev.s) /\ prev.ok
    /\ TagUpdate /\ op.ok
    /\ AncestryHits = {} /\ ProbeHits = {}

\* C14 (as claimed): a tag-mode update makes every SRC_URI line naming the
\* repository, commented out or not, name the resolved branch and keeps its
\* comment marker; and when the recipe holds a commented-out one, a following
\* tag-mode update in which both remote tiers fail resolves to the branch the
\* first update resolved.
C14_RecordedBranchFollows ==
    /\ (TagUpdate /\ op.ok) =>
          /\ Len(UriLines(Lines)) = Len(UriLines(LinesBefore))
          /\ \A i \in 1..Len(UriLines(Lines)) :
                /\ UriLines(Lines)[i].c = UriLines(LinesBefore)[i].c
                /\ UriLines(Lines)[i].t = [op.used EXCEPT !.q = FALSE]
    /\ (SecondUpdateUnresolved /\ RecordedLines(LinesBefore) # {}) =>
          op.used = prev.used
====
